---- MODULE Spec2Model ----
(***************************************************************************)
(* Session-authenticated handover service: the sqlite build                *)
(* (src/server.js) and the PostgreSQL build (src/unnamed/part_000).        *)
(*                                                                         *)
(* A request is handled as a sequence of atomic store statements.  The     *)
(* synchronous code that runs when a request arrives (up to the point at   *)
(* which its first statement is issued) is part of the Start action; each  *)
(* later action is one store statement together with the callback (or the  *)
(* code after the await) that consumes its result.                         *)
(*                                                                         *)
(* A request's fields are drawn when the code first reads them: the token  *)
(* and the login username on arrival, the other body fields and the route  *)
(* parameters in the step that runs the code reading them.                 *)
(*                                                                         *)
(* out is the response the latest step sent, if it sent one; fault tells   *)
(* whether the statement of the latest step failed in the store (an I/O or *)
(* connection error, as opposed to a constraint the statement violates).   *)
(* up is false once an uncaught exception has ended the process.           *)
(*                                                                         *)
(* The database is a file (or a server) that outlives the process, so the  *)
(* state after construction holds the seeded users and whatever sessions   *)
(* an earlier run left behind.  created_at of a user is not modelled.      *)
(***************************************************************************)
EXTENDS Integers, Sequences, FiniteSets, TLC

VARIABLES variant, up, users, sessions, handovers, pc, req, loc, out, fault, issued

vars == <<variant, up, users, sessions, handovers, pc, req, loc, out, fault, issued>>

stores == <<users, sessions, handovers>>

\* ---------------------------------------------------------------- bounds
NumProcs == 2
MaxRequests == 2
NumTokens == 2
MaxClock == 2

Procs == 1..NumProcs
Tokens == 1..NumTokens
Clock == 1..MaxClock

\* ---------------------------------------------------------------- values
\* JavaScript undefined (a field the request does not carry).
Undefined == "<undefined>"
\* A JSON value that is not a string (e.g. the number 123).
NonString == "<number>"

Variants == {"sqlite", "pg"}

Usernames == {"admin", "maintenance", "alice"}
UsernameInputs == Usernames \cup {Undefined}
PasswordInputs == {"admin123", "shift2025", "pw1", Undefined, NonString}
NameInputs == {"Alice", Undefined}
RoleInputs == {Undefined, "admin", "guest"}
DocIds == {"h1", "h2"}
Payloads == {"A", "B"}

\* A session id as the client sends it: 'session_<ms>_<random>', absent or blank.
SessionId(t) == "session_" \o ToString(t)
BlankId == ""
UndefinedId == Undefined
SessionIds == {SessionId(t) : t \in Tokens}
SessionIdInputs == SessionIds \cup {BlankId, UndefinedId}

\* JavaScript truthiness of the values above.
Falsy(v) == v \in {Undefined, ""}
\* a || b
OrElse(a, b) == IF Falsy(a) THEN b ELSE a

\* bcrypt.hashSync / bcrypt.compareSync: the hash is salted, so it is not the
\* password; compareSync is true exactly for the password that was hashed.
\* Both throw when the data is not a string.
BcryptThrows(password) == password \in {Undefined, NonString}
HashSync(password) == <<"$2b$10$", password>>
CompareSync(password, hash) == hash = HashSync(password)

\* JSON.stringify / JSON.parse of a request body.
Stringify(data) == <<"json", data>>
Parse(text) == text[2]

\* ---------------------------------------------------------------- tables
Put(f, k, v) == [x \in (DOMAIN f) \cup {k} |-> IF x = k THEN v ELSE f[x]]
Without(f, K) == [x \in (DOMAIN f) \ K |-> f[x]]
Empty == [x \in {} |-> 0]

Max(S) == CHOOSE m \in S : \A n \in S : n <= m

\* CURRENT_TIMESTAMP: never earlier than a timestamp already stored.
Latest == Max({0} \cup {sessions[s].login_time : s \in DOMAIN sessions}
                  \cup {handovers[d].last_updated : d \in DOMAIN handovers})
Timestamps == {t \in Clock : t >= Latest} \cup {MaxClock}

UserRow(username, hash, role, name) ==
    [username |-> username, password_hash |-> hash, role |-> role, name |-> name]
\* (variant of SessionRow: the snapshot takes the default role, not the user's)
SessionRowDefaultRole(user, time) ==
    [username |-> user.username, role |-> "user", name |-> user.name,
     login_time |-> time]
SessionRow(user, time) ==
    [username |-> user.username, role |-> user.role, name |-> user.name,
     login_time |-> time]

AdminRow(password) == UserRow("admin", HashSync(password), "admin", "System Administrator")
MaintenanceRow == UserRow("maintenance", HashSync("shift2025"), "user", "Maintenance Team")

\* ---------------------------------------------------------------- responses
Json(status, body) == [status |-> status, body |-> body]
Error(status, message) == Json(status, [error |-> message])
Success == Json(200, [success |-> TRUE])
\* express's default error handler: a throw in the synchronous part of a
\* route handler is answered with status 500 and an HTML page.
ExpressError == Json(500, [html |-> "Internal Server Error"])

NoRequest == [op |-> "none"]
NoLocals == [none |-> TRUE]
\* out is what the latest step sent to a client, if it sent anything.
NoOutput == [slot |-> 0, req |-> NoRequest, res |-> Json(0, [none |-> TRUE])]

\* ---------------------------------------------------------------- Init
SeedUsers(v) ==
    IF v = "sqlite"
    THEN Put(Put(Empty, "admin", AdminRow("admin123")), "maintenance", MaintenanceRow)
    ELSE Put(Empty, "admin", AdminRow("admin123"))

\* A user an administrator created in an earlier run, if any.
AliceRow == UserRow("alice", HashSync("pw1"), "user", "Alice")
EarlierUsers(v) == {SeedUsers(v), Put(SeedUsers(v), "alice", AliceRow)}
\* The sessions earlier logins left behind: none, the administrator's, or the
\* administrator's and the created user's.
EarlierSessions(u) ==
    LET a == Put(Empty, SessionId(1), SessionRow(u["admin"], 1))
    IN  {Empty, a} \cup
        (IF "alice" \in DOMAIN u
         THEN {Put(a, SessionId(2), SessionRow(u["alice"], 1))} ELSE {})

Init ==
    /\ variant \in Variants
    /\ up = TRUE
    /\ users \in EarlierUsers(variant)
    /\ sessions \in EarlierSessions(users)
    /\ handovers = Empty
    /\ pc = [p \in Procs |-> "idle"]
    /\ req = [p \in Procs |-> NoRequest]
    /\ loc = [p \in Procs |-> NoLocals]
    /\ out = NoOutput
    /\ fault = FALSE
    /\ issued = 0

\* ---------------------------------------------------------------- helpers
\* A request arrives at the first idle slot; no statement has run yet.
Arrives(p) ==
    /\ up
    /\ pc[p] = "idle"
    /\ \A q \in Procs : q < p => pc[q] # "idle"
    /\ issued < MaxRequests
    /\ issued' = issued + 1
    /\ fault' = FALSE

\* Slot p goes on to its next statement.
Goto(p, at, r, l) ==
    /\ pc' = [pc EXCEPT ![p] = at]
    /\ req' = [req EXCEPT ![p] = r]
    /\ loc' = [loc EXCEPT ![p] = l]
    /\ out' = NoOutput
    /\ UNCHANGED up

\* The response is sent and the request ends.
Reply(p, r, response) ==
    /\ pc' = [pc EXCEPT ![p] = "idle"]
    /\ req' = [req EXCEPT ![p] = NoRequest]
    /\ loc' = [loc EXCEPT ![p] = NoLocals]
    /\ out' = [slot |-> p, req |-> r, res |-> response]
    /\ UNCHANGED up

\* An exception nobody catches ends the node process: no request in flight
\* is answered any more.
Crash(p, r) ==
    /\ up' = FALSE
    /\ req' = [req EXCEPT ![p] = r]
    /\ out' = NoOutput
    /\ UNCHANGED <<pc, loc>>

\* ---------------------------------------------------------------- login
StartLogin(p) ==
    /\ Arrives(p)
    /\ \E username \in UsernameInputs :
        Goto(p, "login_lookup", [op |-> "login", username |-> username], NoLocals)
    /\ UNCHANGED <<variant, stores>>

\* SELECT * FROM users WHERE username = ?
SelectUser(table, username) ==
    IF username \in DOMAIN table THEN <<table[username]>> ELSE <<>>

PublicUser(row) == [username |-> row.username, role |-> row.role, name |-> row.name]

InvalidCredentials == Error(401, "Invalid username or password")

\* The callback of the lookup (the code after its await).
LoginLookup(p) ==
    /\ up
    /\ pc[p] = "login_lookup"
    /\ \E err \in BOOLEAN, password \in PasswordInputs :
        LET rows == SelectUser(users, req[p].username)
            r == [op |-> "login", username |-> req[p].username, password |-> password]
        IN  /\ fault' = err
            /\ IF err
               THEN Reply(p, r, IF variant = "sqlite" THEN InvalidCredentials
                                ELSE Error(500, "Login failed"))
               ELSE IF rows = <<>>
               THEN Reply(p, r, InvalidCredentials)
               ELSE IF BcryptThrows(password)
               THEN IF variant = "sqlite"
                    THEN Crash(p, r)
                    ELSE Reply(p, r, Error(500, "Login failed"))
               ELSE IF CompareSync(password, rows[1].password_hash)
               THEN \E token \in Tokens :
                       Goto(p, "login_insert", r,
                            [sessionId |-> SessionId(token), user |-> rows[1]])
               ELSE Reply(p, r, InvalidCredentials)
    /\ UNCHANGED <<variant, stores, issued>>

\* (variant of InsertSessionFails: INSERT OR REPLACE, which never conflicts)
InsertSessionReplaces(table, sessionId) == FALSE

\* INSERT INTO sessions (session_id, username, role, name) VALUES (?, ?, ?, ?)
\* session_id is the primary key.
InsertSessionFails(table, sessionId) == sessionId \in DOMAIN table

\* (variant of LoginInsert: the answer is sent without waiting for the insert)
LoginInsertAnswersFirst(p) ==
    /\ up
    /\ pc[p] = "login_insert"
    /\ \E err \in BOOLEAN :
        /\ fault' = err
        /\ IF err \/ InsertSessionFails(sessions, loc[p].sessionId)
           THEN UNCHANGED sessions
           ELSE \E time \in Timestamps :
                   sessions' = Put(sessions, loc[p].sessionId,
                                   SessionRow(loc[p].user, time))
        /\ Reply(p, req[p], Json(200, [sessionId |-> loc[p].sessionId,
                                       user |-> PublicUser(loc[p].user)]))
    /\ UNCHANGED <<variant, users, handovers, issued>>

LoginInsert(p) ==
    /\ up
    /\ pc[p] = "login_insert"
    /\ \E err \in BOOLEAN :
        /\ fault' = err
        /\ IF err \/ InsertSessionFails(sessions, loc[p].sessionId)
           THEN /\ Reply(p, req[p], IF variant = "sqlite"
                                    THEN Error(500, "Session creation failed")
                                    ELSE Error(500, "Login failed"))
                /\ UNCHANGED sessions
           ELSE /\ \E time \in Timestamps :
                      sessions' = Put(sessions, loc[p].sessionId,
                                      SessionRow(loc[p].user, time))
                /\ Reply(p, req[p], Json(200, [sessionId |-> loc[p].sessionId,
                                               user |-> PublicUser(loc[p].user)]))
    /\ UNCHANGED <<variant, users, handovers, issued>>

\* ---------------------------------------------------------------- logout
StartLogout(p) ==
    /\ Arrives(p)
    /\ \E sessionId \in SessionIdInputs :
        Goto(p, "logout_delete", [op |-> "logout", sessionId |-> sessionId], NoLocals)
    /\ UNCHANGED <<variant, stores>>

\* (variant of DeleteSession: the statement deletes nothing)
DeleteSessionNothing(table, sessionId) == table
\* (variant of DeleteSession: the statement has no WHERE clause)
DeleteSessionEvery(table, sessionId) == Without(table, DOMAIN table)

\* DELETE FROM sessions WHERE session_id = ?
DeleteSession(table, sessionId) == Without(table, {sessionId})

Logout(p) ==
    /\ up
    /\ pc[p] = "logout_delete"
    /\ \E err \in BOOLEAN :
        /\ fault' = err
        /\ IF err
           THEN /\ Reply(p, req[p], Error(500, "Logout failed"))
                /\ UNCHANGED sessions
           ELSE /\ sessions' = DeleteSession(sessions, req[p].sessionId)
                /\ Reply(p, req[p], Success)
    /\ UNCHANGED <<variant, users, handovers, issued>>

\* ---------------------------------------------------------------- validate
StartValidate(p) ==
    /\ Arrives(p)
    /\ \E sessionId \in SessionIdInputs :
        Goto(p, "validate_lookup", [op |-> "validate", sessionId |-> sessionId],
             NoLocals)
    /\ UNCHANGED <<variant, stores>>

\* SELECT * FROM sessions WHERE session_id = ?
SelectSession(table, sessionId) ==
    IF sessionId \in DOMAIN table THEN <<table[sessionId]>> ELSE <<>>

ValidateResponse(table, sessionId, err) ==
    LET rows == SelectSession(table, sessionId)
    IN  IF err \/ rows = <<>>
        THEN Error(401, "Invalid session")
        ELSE Json(200, [username |-> rows[1].username, role |-> rows[1].role,
                        name |-> rows[1].name, loginTime |-> rows[1].login_time])

\* (variant of Validate: a successful validation refreshes login_time)
ValidateRefreshes(p) ==
    /\ up
    /\ pc[p] = "validate_lookup"
    /\ \E err \in BOOLEAN :
        /\ fault' = err
        /\ Reply(p, req[p], ValidateResponse(sessions, req[p].sessionId, err))
        /\ sessions' = IF ~err /\ req[p].sessionId \in DOMAIN sessions
                       THEN [sessions EXCEPT ![req[p].sessionId].login_time = MaxClock]
                       ELSE sessions
    /\ UNCHANGED <<variant, users, handovers, issued>>

Validate(p) ==
    /\ up
    /\ pc[p] = "validate_lookup"
    /\ \E err \in BOOLEAN :
        /\ fault' = err
        /\ Reply(p, req[p], ValidateResponse(sessions, req[p].sessionId, err))
    /\ UNCHANGED <<variant, stores, issued>>

\* ---------------------------------------------------------------- middleware
AdminOps == {"listUsers", "createUser", "deleteUser"}
DocumentOps == {"getDocument", "putDocument", "listDocuments"}
ProtectedOps == AdminOps \cup DocumentOps

\* authenticate, before its lookup: the token is the x-session-id header or
\* else the sessionId field of the body.
Carried(header, field) == OrElse(header, field)

\* (variant of Authenticate: an unknown token passes as an anonymous user)
AuthenticateAnonymous(table, sessionId, err) ==
    LET rows == IF sessionId \in DOMAIN table THEN <<table[sessionId]>> ELSE <<>>
    IN  IF Falsy(sessionId)
        THEN [next |-> FALSE, res |-> Error(401, "No session provided")]
        ELSE IF err
        THEN [next |-> FALSE, res |-> Error(401, "Invalid session")]
        ELSE IF rows = <<>>
        THEN [next |-> TRUE, user |-> [username |-> "", role |-> "user", name |-> ""]]
        ELSE [next |-> TRUE,
              user |-> [username |-> rows[1].username, role |-> rows[1].role,
                        name |-> rows[1].name]]

\* authenticate: the answer of the middleware when it stops the request, or
\* "next" with the identity it attaches to the request.  Without a token no
\* statement is issued.
Authenticate(table, sessionId, err) ==
    LET rows == SelectSession(table, sessionId)
    IN  IF Falsy(sessionId)
        THEN [next |-> FALSE, res |-> Error(401, "No session provided")]
        ELSE IF err
        THEN [next |-> FALSE,
              res |-> IF variant = "sqlite" THEN Error(401, "Invalid session")
                      ELSE Error(401, "Authentication failed")]
        ELSE IF rows = <<>>
        THEN [next |-> FALSE, res |-> Error(401, "Invalid session")]
        ELSE [next |-> TRUE, user |-> PublicUser(rows[1])]

\* (variant of AuthenticateAdmin: the callback does not check the role)
AuthenticateAdminNoRole(table, sessionId, err) == Authenticate(table, sessionId, err)

\* authenticateAdmin: authenticate with the callback that checks the role.
AuthenticateAdmin(table, sessionId, err) ==
    LET a == Authenticate(table, sessionId, err)
    IN  IF a.next /\ a.user.role # "admin"
        THEN [next |-> FALSE, res |-> Error(403, "Admin access required")]
        ELSE a

\* The middleware each route is registered with.
Guard(op, table, sessionId, err) ==
    IF op \in AdminOps THEN AuthenticateAdmin(table, sessionId, err)
    ELSE Authenticate(table, sessionId, err)

StartProtected(p) ==
    /\ Arrives(p)
    /\ \E op \in ProtectedOps, header \in SessionIdInputs, field \in SessionIdInputs :
        LET r == [op |-> op, sessionId |-> Carried(header, field)]
        IN  IF Falsy(r.sessionId)
            THEN Reply(p, r, Guard(op, sessions, r.sessionId, FALSE).res)
            ELSE Goto(p, "auth_lookup", r, NoLocals)
    /\ UNCHANGED <<variant, stores>>

\* The synchronous part of each route handler, run by next(): it reads the
\* request and issues the handler's first statement, or answers at once.
EnterListUsers(p, user) ==
    Goto(p, "list_users", req[p], [user |-> user])

CreateUserInputs ==
    [username : UsernameInputs, password : {"pw1", Undefined, NonString},
     name : NameInputs, role : RoleInputs]

EnterCreateUser(p, user) ==
    \E body \in CreateUserInputs :
        LET r == [op |-> "createUser", sessionId |-> req[p].sessionId,
                  username |-> body.username, password |-> body.password,
                  name |-> body.name, role |-> body.role]
        IN  IF Falsy(body.username) \/ Falsy(body.password) \/ Falsy(body.name)
            THEN Reply(p, r, Error(400, "Missing required fields"))
            ELSE IF BcryptThrows(body.password)
            THEN Reply(p, r, IF variant = "sqlite" THEN ExpressError
                             ELSE Error(500, "User creation failed"))
            ELSE Goto(p, "insert_user", r,
                      [user |-> user,
                       row |-> UserRow(body.username, HashSync(body.password),
                                       OrElse(body.role, "user"), body.name)])

\* (variant of EnterDeleteUser: no check of the reserved username)
EnterDeleteUserUnchecked(p, user) ==
    \E username \in Usernames :
        Goto(p, IF variant = "sqlite" THEN "delete_user" ELSE "delete_sessions",
             [op |-> "deleteUser", sessionId |-> req[p].sessionId,
              username |-> username],
             [user |-> user])

EnterDeleteUser(p, user) ==
    \E username \in Usernames :
        LET r == [op |-> "deleteUser", sessionId |-> req[p].sessionId,
                  username |-> username]
        IN  IF username = "admin"
            THEN Reply(p, r, Error(403, "Cannot delete admin user"))
            ELSE Goto(p, IF variant = "sqlite" THEN "delete_user" ELSE "delete_sessions",
                      r, [user |-> user])

EnterGetDocument(p, user) ==
    \E id \in DocIds :
        Goto(p, "select_handover",
             [op |-> "getDocument", sessionId |-> req[p].sessionId, id |-> id],
             [user |-> user])

EnterPutDocument(p, user) ==
    \E id \in DocIds, data \in Payloads :
        Goto(p, "upsert_handover",
             [op |-> "putDocument", sessionId |-> req[p].sessionId, id |-> id,
              data |-> data],
             [user |-> user, dataString |-> Stringify(data)])

EnterListDocuments(p, user) ==
    Goto(p, "list_handovers", req[p], [user |-> user])

Enter(p, user) ==
    CASE req[p].op = "listUsers" -> EnterListUsers(p, user)
      [] req[p].op = "createUser" -> EnterCreateUser(p, user)
      [] req[p].op = "deleteUser" -> EnterDeleteUser(p, user)
      [] req[p].op = "getDocument" -> EnterGetDocument(p, user)
      [] req[p].op = "putDocument" -> EnterPutDocument(p, user)
      [] req[p].op = "listDocuments" -> EnterListDocuments(p, user)

\* SELECT * FROM sessions WHERE session_id = ? of authenticate, and what its
\* callback runs.
AuthLookup(p) ==
    /\ up
    /\ pc[p] = "auth_lookup"
    /\ \E err \in BOOLEAN :
        LET g == Guard(req[p].op, sessions, req[p].sessionId, err)
        IN  /\ fault' = err
            /\ IF g.next THEN Enter(p, g.user) ELSE Reply(p, req[p], g.res)
    /\ UNCHANGED <<variant, stores, issued>>

\* ---------------------------------------------------------------- users
\* SELECT username, role, name, created_at FROM users
ListUsers(p) ==
    /\ up
    /\ pc[p] = "list_users"
    /\ \E err \in BOOLEAN :
        /\ fault' = err
        /\ IF err
           THEN Reply(p, req[p], Error(500, "Failed to fetch users"))
           ELSE Reply(p, req[p],
                      Json(200, [rows |-> {PublicUser(users[u]) : u \in DOMAIN users}]))
    /\ UNCHANGED <<variant, stores, issued>>

\* (variant of InsertUserConflicts: INSERT OR REPLACE, which never conflicts)
InsertUserReplaces(table, row) == FALSE

\* INSERT INTO users (username, password_hash, role, name) VALUES (?, ?, ?, ?)
\* username is the primary key: SQLITE_CONSTRAINT / 23505 when it exists.
InsertUserConflicts(table, row) == row.username \in DOMAIN table

CreateUser(p) ==
    /\ up
    /\ pc[p] = "insert_user"
    /\ \E err \in BOOLEAN :
        /\ fault' = err
        /\ IF err
           THEN /\ Reply(p, req[p], Error(500, "User creation failed"))
                /\ UNCHANGED users
           ELSE IF InsertUserConflicts(users, loc[p].row)
           THEN /\ Reply(p, req[p], Error(409, "Username already exists"))
                /\ UNCHANGED users
           ELSE /\ users' = Put(users, loc[p].row.username, loc[p].row)
                /\ Reply(p, req[p], Success)
    /\ UNCHANGED <<variant, sessions, handovers, issued>>

\* DELETE FROM users WHERE username = ?
DeleteUserRow(table, username) == Without(table, {username})

\* (variant of DeleteSessionsOf: the statement has no WHERE clause)
DeleteSessionsOfAnyone(table, username) == Empty

\* DELETE FROM sessions WHERE username = ?
DeleteSessionsOf(table, username) ==
    Without(table, {s \in DOMAIN table : table[s].username = username})

\* sqlite: DELETE FROM users first; the answer is sent when the statement
\* deleting the sessions has been issued, not when it has run.  The FOREIGN KEY
\* of sessions is not enforced (PRAGMA foreign_keys is never switched on).
DeleteUserSqlite(p) ==
    /\ up
    /\ pc[p] = "delete_user"
    /\ variant = "sqlite"
    /\ \E err \in BOOLEAN :
        /\ fault' = err
        /\ IF err
           THEN /\ Reply(p, req[p], Error(500, "User deletion failed"))
                /\ UNCHANGED users
           ELSE IF req[p].username \notin DOMAIN users
           THEN /\ Reply(p, req[p], Error(404, "User not found"))
                /\ UNCHANGED users
           ELSE /\ users' = DeleteUserRow(users, req[p].username)
                /\ pc' = [pc EXCEPT ![p] = "delete_sessions"]
                /\ out' = [slot |-> p, req |-> req[p], res |-> Success]
                /\ UNCHANGED <<up, req, loc>>
    /\ UNCHANGED <<variant, sessions, handovers, issued>>

\* sqlite: the statement issued without a callback; its error is an 'error'
\* event nobody listens to.
DeleteSessionsSqlite(p) ==
    /\ up
    /\ pc[p] = "delete_sessions"
    /\ variant = "sqlite"
    /\ \E err \in BOOLEAN :
        /\ fault' = err
        /\ IF err
           THEN /\ Crash(p, req[p])
                /\ UNCHANGED sessions
           ELSE /\ sessions' = DeleteSessionsOf(sessions, req[p].username)
                /\ pc' = [pc EXCEPT ![p] = "idle"]
                /\ req' = [req EXCEPT ![p] = NoRequest]
                /\ loc' = [loc EXCEPT ![p] = NoLocals]
                /\ out' = NoOutput
                /\ UNCHANGED up
    /\ UNCHANGED <<variant, users, handovers, issued>>

\* PostgreSQL: DELETE FROM sessions first.
DeleteSessionsPg(p) ==
    /\ up
    /\ pc[p] = "delete_sessions"
    /\ variant = "pg"
    /\ \E err \in BOOLEAN :
        /\ fault' = err
        /\ IF err
           THEN /\ Reply(p, req[p], Error(500, "User deletion failed"))
                /\ UNCHANGED sessions
           ELSE /\ sessions' = DeleteSessionsOf(sessions, req[p].username)
                /\ Goto(p, "delete_user", req[p], loc[p])
    /\ UNCHANGED <<variant, users, handovers, issued>>

\* PostgreSQL: DELETE FROM users second.
DeleteUserPg(p) ==
    /\ up
    /\ pc[p] = "delete_user"
    /\ variant = "pg"
    /\ \E err \in BOOLEAN :
        /\ fault' = err
        /\ IF err
           THEN /\ Reply(p, req[p], Error(500, "User deletion failed"))
                /\ UNCHANGED users
           ELSE IF req[p].username \notin DOMAIN users
           THEN /\ Reply(p, req[p], Error(404, "User not found"))
                /\ UNCHANGED users
           ELSE /\ users' = DeleteUserRow(users, req[p].username)
                /\ Reply(p, req[p], Success)
    /\ UNCHANGED <<variant, sessions, handovers, issued>>

\* ---------------------------------------------------------------- handovers
\* SELECT * FROM handovers WHERE id = ? and the answer built from its result.
GetDocumentResponse(table, id, err) ==
    IF err THEN Error(500, "Failed to fetch handover")
    ELSE IF id \notin DOMAIN table THEN Error(404, "Handover not found")
    ELSE Json(200, [data |-> Parse(table[id].data)])

GetDocument(p) ==
    /\ up
    /\ pc[p] = "select_handover"
    /\ \E err \in BOOLEAN :
        /\ fault' = err
        /\ Reply(p, req[p], GetDocumentResponse(handovers, req[p].id, err))
    /\ UNCHANGED <<variant, stores, issued>>

\* (variant of UpsertHandover: INSERT OR IGNORE, which keeps an existing row)
UpsertHandoverIgnore(table, id, dataString, time) ==
    IF id \in DOMAIN table THEN table
    ELSE Put(table, id, [data |-> dataString, last_updated |-> time])

\* INSERT OR REPLACE INTO handovers / INSERT ... ON CONFLICT (id) DO UPDATE
UpsertHandover(table, id, dataString, time) ==
    Put(table, id, [data |-> dataString, last_updated |-> time])

PutDocument(p) ==
    /\ up
    /\ pc[p] = "upsert_handover"
    /\ \E err \in BOOLEAN :
        /\ fault' = err
        /\ IF err
           THEN /\ Reply(p, req[p], Error(500, "Failed to save handover"))
                /\ UNCHANGED handovers
           ELSE /\ \E time \in Timestamps :
                      handovers' = UpsertHandover(handovers, req[p].id,
                                                  loc[p].dataString, time)
                /\ Reply(p, req[p], Success)
    /\ UNCHANGED <<variant, users, sessions, issued>>

\* ORDER BY last_updated DESC: rows with the same last_updated come in
\* either order.
RECURSIVE Orders(_, _)
Orders(table, S) ==
    IF S = {} THEN {<<>>}
    ELSE UNION {{<<d>> \o rest : rest \in Orders(table, S \ {d})} :
                d \in {e \in S : \A f \in S :
                          table[f].last_updated <= table[e].last_updated}}

\* SELECT id, last_updated FROM handovers ORDER BY last_updated DESC
ListDocuments(p) ==
    /\ up
    /\ pc[p] = "list_handovers"
    /\ \E err \in BOOLEAN :
        /\ fault' = err
        /\ IF err
           THEN Reply(p, req[p], Error(500, "Failed to fetch handovers"))
           ELSE \E order \in Orders(handovers, DOMAIN handovers) :
                   Reply(p, req[p],
                         Json(200, [rows |-> [i \in DOMAIN order |->
                             [id |-> order[i],
                              last_updated |-> handovers[order[i]].last_updated]]]))
    /\ UNCHANGED <<variant, stores, issued>>

\* ---------------------------------------------------------------- Next
Next ==
    \E p \in Procs :
        \/ StartLogin(p)
        \/ LoginLookup(p)
        \/ LoginInsert(p)
        \/ StartLogout(p)
        \/ Logout(p)
        \/ StartValidate(p)
        \/ Validate(p)
        \/ StartProtected(p)
        \/ AuthLookup(p)
        \/ ListUsers(p)
        \/ CreateUser(p)
        \/ DeleteUserSqlite(p)
        \/ DeleteSessionsSqlite(p)
        \/ DeleteSessionsPg(p)
        \/ DeleteUserPg(p)
        \/ GetDocument(p)
        \/ PutDocument(p)
        \/ ListDocuments(p)

Spec == Init /\ [][Next]_vars

\* The same service started on a database in which an administrator has
\* created alice with the role admin (POST /api/users with role 'admin').
AliceAdminRow == UserRow("alice", HashSync("pw1"), "admin", "Alice")

InitSecondAdmin ==
    /\ variant \in Variants
    /\ up = TRUE
    /\ users = Put(SeedUsers(variant), "alice", AliceAdminRow)
    /\ sessions \in EarlierSessions(users)
    /\ handovers = Empty
    /\ pc = [p \in Procs |-> "idle"]
    /\ req = [p \in Procs |-> NoRequest]
    /\ loc = [p \in Procs |-> NoLocals]
    /\ out = NoOutput
    /\ fault = FALSE
    /\ issued = 0

SpecSecondAdmin == InitSecondAdmin /\ [][Next]_vars

\* ================================================================ claims
Acts(p) == pc'[p] # pc[p]
StoresUnchanged == <<users, sessions, handovers>>' = <<users, sessions, handovers>>
SessionView(v) == [username |-> v.username, role |-> v.role, name |-> v.name]

\* What the middleware answers when it stops a request.
MiddlewareRejections ==
    {Error(401, "No session provided"), Error(401, "Invalid session"),
     Error(401, "Authentication failed"), Error(403, "Admin access required")}

\* In this step the middleware of slot p called next(): the route handler ran.
HandlerEntered(p) ==
    /\ pc[p] = "auth_lookup"
    /\ \/ pc'[p] \notin {"auth_lookup", "idle"}
       \/ pc'[p] = "idle" /\ out'.res \notin MiddlewareRejections

\* C1: a login that succeeds did so for a user record of the credential store
\* (the one its lookup read, with the password given), and a validate of the
\* returned token in the state the login leaves succeeds with the username,
\* role and name that login returned, which are those of that record.
C1_LoginThenValidate ==
    [][\A p \in Procs :
        /\ (pc[p] = "login_lookup" /\ pc'[p] = "login_insert") =>
              /\ req[p].username \in DOMAIN users
              /\ loc'[p].user = users[req[p].username]
              /\ CompareSync(req'[p].password, users[req[p].username].password_hash)
        /\ (pc[p] = "login_insert" /\ pc'[p] = "idle" /\ out'.res.status = 200) =>
              LET v == ValidateResponse(sessions', out'.res.body.sessionId, FALSE)
              IN  /\ v.status = 200
                  /\ SessionView(v.body) = out'.res.body.user
                  /\ out'.res.body.user = PublicUser(loc[p].user)
      ]_vars

\* C1 witness: an administrator's login has just succeeded and its token
\* validates.
C1_Witness ==
    /\ out.req.op = "login"
    /\ out.res.status = 200
    /\ out.res.body.user.role = "admin"
    /\ ValidateResponse(sessions, out.res.body.sessionId, FALSE).status = 200

\* C2: a route guarded by authenticateAdmin runs its handler only for the
\* token of an existing session whose role is admin; without a token the
\* request is answered 401 on arrival, with an unknown token 401 and with a
\* session of another role 403 (the lookup having been answered), and a
\* request the middleware stops changes no store.
C2_AdminGuard ==
    [][\A p \in Procs :
        /\ (pc[p] = "idle" /\ pc'[p] = "auth_lookup") => ~Falsy(req'[p].sessionId)
        /\ (pc[p] = "idle" /\ out'.slot = p /\ out'.req.op \in AdminOps) =>
              /\ Falsy(out'.req.sessionId)
              /\ out'.res = Error(401, "No session provided")
              /\ StoresUnchanged
        /\ (pc[p] = "auth_lookup" /\ req[p].op \in AdminOps /\ Acts(p)) =>
              LET sid == req[p].sessionId
                  known == sid \in DOMAIN sessions
              IN  /\ HandlerEntered(p) => known /\ sessions[sid].role = "admin"
                  /\ ~HandlerEntered(p) =>
                        /\ pc'[p] = "idle"
                        /\ out'.res.status \in {401, 403}
                        /\ StoresUnchanged
                  /\ (~fault' /\ ~known) => out'.res = Error(401, "Invalid session")
                  /\ (~fault' /\ known /\ sessions[sid].role # "admin") =>
                        out'.res = Error(403, "Admin access required")
      ]_vars

\* C2 witness: listUsers with the token of an existing session of role user
\* has just been answered 403.
C2_Witness ==
    /\ out.req.op = "listUsers"
    /\ out.res.status = 403
    /\ out.req.sessionId \in DOMAIN sessions
    /\ sessions[out.req.sessionId].role = "user"

\* C3: a route guarded by authenticate runs its handler if and only if the
\* token resolves to an existing session (the lookup having been answered),
\* whatever the role; the identity attached to the request is that session's
\* username, role and name; without a token or with an unknown one the
\* handler does not run and no store changes.
C3_AuthenticatedGuard ==
    [][\A p \in Procs :
        /\ (pc[p] = "idle" /\ out'.slot = p /\ out'.req.op \in DocumentOps) =>
              /\ Falsy(out'.req.sessionId)
              /\ out'.res.status = 401
              /\ StoresUnchanged
        /\ (pc[p] = "auth_lookup" /\ req[p].op \in DocumentOps /\ Acts(p)) =>
              LET sid == req[p].sessionId
                  known == sid \in DOMAIN sessions
              IN  /\ HandlerEntered(p) =>
                        /\ known
                        /\ loc'[p].user = SessionView(sessions[sid])
                  /\ ~fault' => (HandlerEntered(p) <=> known)
                  /\ ~HandlerEntered(p) =>
                        /\ pc'[p] = "idle"
                        /\ out'.res.status = 401
                        /\ StoresUnchanged
      ]_vars

\* C3 witness: a document handler is running on behalf of a session of role
\* user, with that session's identity attached.
C3_Witness ==
    \E p \in Procs :
        /\ pc[p] \in {"select_handover", "upsert_handover", "list_handovers"}
        /\ loc[p].user.role = "user"
        /\ req[p].sessionId \in DOMAIN sessions
        /\ loc[p].user = SessionView(sessions[req[p].sessionId])

\* The login request of slot p as this step leaves it (the password is read
\* in the step).
LoginRequest(p) == IF pc'[p] = "idle" THEN out'.req ELSE req'[p]
\* Slot p ran the callback of its user lookup in this step.
LookupRan(p) ==
    /\ pc[p] = "login_lookup"
    /\ Acts(p) \/ (up /\ ~up' /\ req'[p] # req[p])

\* C4: a login whose username is unknown and a login whose password is not the
\* user's end alike (the lookup having been answered): 401 with the message
\* 'Invalid username or password', and no session is created.
C4_IdenticalFailure ==
    [][\A p \in Procs :
        LookupRan(p) /\ ~fault' =>
            LET u == req[p].username
                failed == \/ u \notin DOMAIN users
                          \/ ~CompareSync(LoginRequest(p).password,
                                          users[u].password_hash)
            IN  failed => /\ pc'[p] = "idle"
                          /\ out'.res = InvalidCredentials
                          /\ sessions' = sessions
      ]_vars

\* C5: after a logout that was answered with success, a validate of the same
\* token fails with 401 'Invalid session' and every guarded route rejects the
\* token with 401.
C5_LogoutThenValidate ==
    [][\A p \in Procs :
        (pc[p] = "logout_delete" /\ Acts(p) /\ out'.res = Success) =>
            LET sid == req[p].sessionId
            IN  /\ ValidateResponse(sessions', sid, FALSE) = Error(401, "Invalid session")
                /\ \A op \in ProtectedOps :
                      LET g == Guard(op, sessions', sid, FALSE)
                      IN  ~g.next /\ g.res.status = 401
      ]_vars

\* C5 witness: a logout of a session id has just been answered with success
\* while another session is alive.
C5_Witness ==
    /\ out.req.op = "logout"
    /\ out.res = Success
    /\ out.req.sessionId \in SessionIds
    /\ sessions # Empty

\* C6: when deleteUser(username) has been answered with success, the session
\* store holds no session of that username.
C6_NoSessionOfDeletedUser ==
    (out.req.op = "deleteUser" /\ out.res = Success) =>
        \A s \in DOMAIN sessions : sessions[s].username # out.req.username

\* C7: the record of admin is never removed or changed; a deleteUser of admin
\* that reaches the handler (which only an admin session does) is answered
\* 403 'Cannot delete admin user' and changes no store, and no statement of a
\* deleteUser ever targets admin.
C7_AdminProtected ==
    [][/\ "admin" \in DOMAIN users
       /\ "admin" \in DOMAIN users'
       /\ users'["admin"] = users["admin"]
       /\ \A p \in Procs :
            /\ pc'[p] \in {"delete_user", "delete_sessions"} =>
                  req'[p].username # "admin"
            /\ (Acts(p) /\ pc'[p] = "idle" /\ out'.req.op = "deleteUser"
                  /\ out'.res \notin MiddlewareRejections
                  /\ out'.req.username = "admin") =>
                  /\ out'.res = Error(403, "Cannot delete admin user")
                  /\ StoresUnchanged
                  /\ sessions[out'.req.sessionId].role = "admin"
      ]_vars

\* C7 witness: an administrator's deleteUser of admin has just been refused
\* while admin has a session.
C7_Witness ==
    /\ out.res = Error(403, "Cannot delete admin user")
    /\ out.req.username = "admin"
    /\ \E s \in DOMAIN sessions : sessions[s].username = "admin"

\* C8: a createUser whose insert runs (and is answered by the store) when the
\* username exists is answered 409 'Username already exists' and leaves the
\* user store as it was; it succeeds only when the username did not exist, so
\* of two concurrent createUser of one username the second to run fails.
C8_DuplicateUsername ==
    [][\A p \in Procs :
        (pc[p] = "insert_user" /\ Acts(p)) =>
            LET u == req[p].username
            IN  /\ (~fault' /\ u \in DOMAIN users) =>
                      /\ out'.res = Error(409, "Username already exists")
                      /\ users' = users
                /\ out'.res = Success =>
                      /\ u \notin DOMAIN users
                      /\ u \in DOMAIN users'
                      /\ \A w \in DOMAIN users : users'[w] = users[w]
                /\ out'.res # Success => users' = users
      ]_vars

\* C8 witness: a createUser of an existing username, with a password other
\* than the existing record's, has just been answered 409.
C8_Witness ==
    /\ out.req.op = "createUser"
    /\ out.res = Error(409, "Username already exists")
    /\ out.req.username \in DOMAIN users
    /\ users[out.req.username].password_hash # HashSync(out.req.password)

\* C9: a logout the store answers succeeds; when the token names no session
\* the session store is unchanged, and deleting the token once more from the
\* state the logout leaves changes nothing.  Logout touches no other store.
C9_LogoutIdempotent ==
    [][\A p \in Procs :
        (pc[p] = "logout_delete" /\ Acts(p)) =>
            LET sid == req[p].sessionId
            IN  /\ ~fault' => out'.res = Success
                /\ sid \notin DOMAIN sessions => sessions' = sessions
                /\ DeleteSession(sessions', sid) = sessions' \/ fault'
                /\ users' = users /\ handovers' = handovers
      ]_vars

\* C9 witness: a logout without a known token has just succeeded and the
\* sessions are still there.
C9_Witness ==
    /\ out.req.op = "logout"
    /\ out.res = Success
    /\ out.req.sessionId \notin DOMAIN sessions
    /\ Falsy(out.req.sessionId)
    /\ sessions # Empty

\* C10: a validate without a session id (absent or blank) is not answered
\* with the outcome of an unknown session id, 401 'Invalid session'.
C10_ValidateDistinguishes ==
    (out.req.op = "validate" /\ Falsy(out.req.sessionId) /\ ~fault) =>
        out.res # Error(401, "Invalid session")


\* C11: a step whose store statement failed answers its request with an
\* InternalError: status 500 and an error message, never 401, a success,
\* another kind, or no answer at all.
C11_StoreFailureIsInternalError ==
    fault => /\ up
             /\ out # NoOutput
             /\ out.res.status = 500
             /\ DOMAIN out.res.body = {"error"}


\* C12: no request ends in an uncaught exception (the process stays up, so
\* every request in flight is still answered), and every answer is a
\* structured one, never the error page of the framework.
C12_NoThrowPastBoundary ==
    /\ up
    /\ out # NoOutput => out.res # ExpressError


\* C13: a putDocument(id, B) that succeeds leaves under id exactly B, whatever
\* was stored there before and whatever other putDocument of the same id is
\* in flight: getDocument(id) in the state it leaves returns B, the row is
\* the serialisation of B alone, and the documents of the other ids are
\* unchanged; the last write is the one stored.  No other step changes a
\* document.
C13_LastWriteWins ==
    [][/\ \A p \in Procs :
            (pc[p] = "upsert_handover" /\ pc'[p] = "idle" /\ out'.res = Success) =>
                /\ GetDocumentResponse(handovers', req[p].id, FALSE)
                       = Json(200, [data |-> req[p].data])
                /\ handovers'[req[p].id].data = Stringify(req[p].data)
                /\ DOMAIN handovers' = DOMAIN handovers \cup {req[p].id}
                /\ \A d \in DOMAIN handovers \ {req[p].id} :
                       handovers'[d] = handovers[d]
       /\ handovers' # handovers =>
              \E p \in Procs : /\ pc[p] = "upsert_handover"
                               /\ pc'[p] = "idle"
                               /\ out'.res = Success
      ]_vars

\* C13 witness: two putDocument of one id with different payloads are in
\* flight together; the first to write has stored its payload and the other
\* is about to overwrite it.
C13_Witness ==
    /\ out.req.op = "putDocument"
    /\ out.res = Success
    /\ out.req.data = "B"
    /\ handovers[out.req.id].data = Stringify("B")
    /\ \E p \in Procs : /\ pc[p] = "upsert_handover"
                        /\ req[p].id = out.req.id
                        /\ req[p].data = "A"


\* C14: every user record, and so every session snapshot, has the role admin
\* or the role user.
C14_RolesAreAdminOrUser ==
    /\ \A u \in DOMAIN users : users[u].role \in {"admin", "user"}
    /\ \A s \in DOMAIN sessions : sessions[s].role \in {"admin", "user"}


\* C15: a stored session stays stored, with its username, role, name and
\* login time unchanged, through every step that is neither the delete of a
\* logout of its token nor the session delete of a deleteUser of its
\* username; validate of its token (the lookup answered) gives the same
\* successful answer after the step as before.
C15_SessionPersists ==
    [][\A s \in DOMAIN sessions :
        \/ /\ s \in DOMAIN sessions'
           /\ sessions'[s] = sessions[s]
           /\ ValidateResponse(sessions', s, FALSE).status = 200
           /\ ValidateResponse(sessions', s, FALSE) = ValidateResponse(sessions, s, FALSE)
        \/ \E p \in Procs : /\ pc[p] = "logout_delete"
                            /\ req[p].op = "logout"
                            /\ req[p].sessionId = s
                            /\ Acts(p)
        \/ \E p \in Procs : /\ pc[p] = "delete_sessions"
                            /\ req[p].op = "deleteUser"
                            /\ req[p].username = sessions[s].username
                            /\ Acts(p)
      ]_vars

\* C15 witness: the logout of the administrator's token has just succeeded and
\* the session of another user, stored before, is still there and validates.
C15_Witness ==
    /\ issued = 1
    /\ out.req.op = "logout"
    /\ out.res = Success
    /\ out.req.sessionId = SessionId(1)
    /\ SessionId(1) \notin DOMAIN sessions
    /\ SessionId(2) \in DOMAIN sessions
    /\ sessions[SessionId(2)].username = "alice"
    /\ ValidateResponse(sessions, SessionId(2), FALSE).status = 200


\* In this step slot p ran code of validate: its arrival, or its lookup and
\* answer.
ValidateStep(p) ==
    \/ pc[p] = "idle" /\ pc'[p] = "validate_lookup"
    \/ pc[p] = "validate_lookup" /\ Acts(p)

\* In this step slot p ran code of the authorization middleware: the arrival
\* of a guarded request (answered at once without a token), or its lookup and
\* what the callback does up to the handler's first statement.
MiddlewareStep(p) ==
    \/ pc[p] = "idle" /\ pc'[p] = "auth_lookup"
    \/ /\ pc[p] = "idle"
       /\ issued' # issued
       /\ out'.slot = p
       /\ out'.req.op \in ProtectedOps
    \/ pc[p] = "auth_lookup" /\ Acts(p)

\* C16: a step of validate or of the authorization middleware, whatever it
\* answers, leaves the users, the sessions (login times included) and the
\* documents as they were.
C16_ReadOnly ==
    [][\A p \in Procs : (ValidateStep(p) \/ MiddlewareStep(p)) => StoresUnchanged]_vars

\* C16 witness: validate has just succeeded for a stored session, whose
\* login time is the one it reports.
C16_Witness ==
    /\ out.req.op = "validate"
    /\ out.res.status = 200
    /\ out.req.sessionId \in DOMAIN sessions
    /\ out.res.body.loginTime = sessions[out.req.sessionId].login_time
    /\ users # Empty


\* C17: a login whose generated token already names a stored session fails
\* with 500, returns no token and leaves the sessions as they were; a login
\* that succeeds returns a token that named no session before and adds one
\* record under it, every other session staying as it was.  So no two
\* successful logins share a live token.
C17_TokensUnique ==
    [][\A p \in Procs : (pc[p] = "login_insert" /\ Acts(p)) =>
        /\ loc[p].sessionId \in DOMAIN sessions =>
              /\ out'.res.status = 500
              /\ DOMAIN out'.res.body = {"error"}
              /\ sessions' = sessions
        /\ out'.res.status = 200 =>
              /\ out'.res.body.sessionId = loc[p].sessionId
              /\ loc[p].sessionId \notin DOMAIN sessions
              /\ DOMAIN sessions' = DOMAIN sessions \cup {loc[p].sessionId}
              /\ \A s \in DOMAIN sessions : sessions'[s] = sessions[s]
      ]_vars

\* C17 witness: a login has just failed on its insert although the store
\* answered: the token it generated names a stored session.
C17_Witness ==
    /\ out.req.op = "login"
    /\ out.res = Error(500, "Session creation failed")
    /\ ~fault
    /\ sessions # Empty


\* C18: login sends a token only in the callback of a session insert that
\* succeeded: when a login is answered 200, the sessions hold under the
\* returned token a record with the returned username, role and name (those
\* of the user the lookup read); a login answered otherwise carries no token
\* and has left the sessions unchanged, and the lookup step stores nothing.
C18_TokenAfterInsert ==
    [][\A p \in Procs :
        (pc[p] \in {"login_lookup", "login_insert"} /\ Acts(p)) =>
            IF pc'[p] = "idle" /\ out'.res.status = 200
            THEN /\ pc[p] = "login_insert"
                 /\ out'.res.body.sessionId \in DOMAIN sessions'
                 /\ SessionView(sessions'[out'.res.body.sessionId]) = out'.res.body.user
                 /\ out'.res.body.user = PublicUser(loc[p].user)
                 /\ sessions' # sessions
            ELSE /\ sessions' = sessions
                 /\ pc'[p] = "idle" => "sessionId" \notin DOMAIN out'.res.body
                 /\ pc'[p] # "idle" => out' = NoOutput
      ]_vars

\* C18 witness: the session insert of a login has just failed in the store
\* and the login was answered with an error.
C18_Witness ==
    /\ fault
    /\ out.req.op = "login"
    /\ out.res = Error(500, "Session creation failed")
    /\ out.req.username \in DOMAIN users
    /\ CompareSync(out.req.password, users[out.req.username].password_hash)


\* A deleteUser is in progress: it has arrived and not yet run its last
\* statement.
DeleteUserInProgress == \E p \in Procs : req[p].op = "deleteUser"

\* C19: whenever no deleteUser is in progress, the username of every stored
\* session names a stored user.
C19_NoOrphanSessions ==
    ~DeleteUserInProgress =>
        \A s \in DOMAIN sessions : sessions[s].username \in DOMAIN users


\* C20: every stored session whose snapshot role is admin belongs to a
\* username whose user record is stored and has the role admin.
C20_NoStalePrivilege ==
    \A s \in DOMAIN sessions :
        sessions[s].role = "admin" =>
            /\ sessions[s].username \in DOMAIN users
            /\ users[sessions[s].username].role = "admin"

====
